---------------------------- MODULE Spec2Model ----------------------------
(***************************************************************************)
(* Smart waste management backend: threshold evaluation, alert lifecycle,  *)
(* notification dispatch and the ingestion / collection request handlers.  *)
(*                                                                         *)
(* Every `await` on the store is a scheduling point of the Node.js event   *)
(* loop, so every handler is a small process whose steps are the store     *)
(* calls; the synchronous code between two awaits belongs to the step that *)
(* precedes it.  A store call either succeeds or returns an error.         *)
(***************************************************************************)
EXTENDS Integers, Sequences, FiniteSets, Bags, TLC

\* ------------------------------------------------------------------------
\* JavaScript values: undefined, null, or a number.
\* ------------------------------------------------------------------------
Undefined == [k |-> "undefined", v |-> 0]
Null      == [k |-> "null", v |-> 0]
Num(n)    == [k |-> "num", v |-> n]

\* x || null : a falsy x (undefined, null, 0) becomes null
OrNull(x) == IF x.k = "num" /\ x.v # 0 THEN x ELSE Null

\* x != null : loose inequality, false for null and for undefined
NotNullish(x) == x.k = "num"

\* x >= n, x <= n, x < n, x > n with ToNumber(null) = 0 and ToNumber(undefined) = NaN
JsGe(x, n) == IF x.k = "num" THEN x.v >= n ELSE IF x.k = "null" THEN 0 >= n ELSE FALSE
JsLe(x, n) == IF x.k = "num" THEN x.v <= n ELSE IF x.k = "null" THEN 0 <= n ELSE FALSE
JsLt(x, n) == IF x.k = "num" THEN x.v < n ELSE IF x.k = "null" THEN 0 < n ELSE FALSE
JsGt(x, n) == IF x.k = "num" THEN x.v > n ELSE IF x.k = "null" THEN 0 > n ELSE FALSE

\* identifiers are strings; these two stand for an absent and a null one
NoId   == "undefined"
NullId == "null"

\* id || null
IdOrNull(x) == IF x = NoId THEN NullId ELSE x

\* ------------------------------------------------------------------------
\* Alert service: thresholds and evaluateReading's candidate list
\* ------------------------------------------------------------------------
THRESHOLDS ==
    [fill        |-> [warning |-> 50, critical |-> 80, flash |-> 95],
     gas         |-> [warning |-> 200, critical |-> 500],
     temperature |-> [warning |-> 45, critical |-> 60],
     battery     |-> [warning |-> 20, critical |-> 10]]

MsgFillFlash    == "Bin is ${fill_level}% full - FLASH ALERT! Immediate collection required."
MsgFillCritical == "Bin is ${fill_level}% full - approaching capacity."
MsgFillWarning  == "Bin is ${fill_level}% full - schedule collection soon."
MsgGasCritical  == "Dangerous gas level detected: ${gas_level} ppm."
MsgGasWarning   == "Elevated gas level detected: ${gas_level} ppm."
MsgTempCritical == "Extreme temperature detected: ${temperature} C."
MsgTempWarning  == "High temperature detected: ${temperature} C."
MsgBatCritical  == "Battery critically low: ${battery_level}%."
MsgBatWarning   == "Battery low: ${battery_level}%."

\* a template literal: the text and the value interpolated into it
Message(text, x) == [text |-> text, arg |-> x.v]

buildAlert(reading, alertType, severity, message) ==
    [bin_id     |-> reading.bin_id,
     alert_type |-> alertType,
     severity   |-> severity,
     message    |-> message,
     resolved   |-> FALSE]

\* fillAlerts with each tier starting above its threshold (> for >=): a faulty
\* variant that the tier properties must tell from fillAlerts
fillAlertsAbove(reading) ==
    IF JsGt(reading.fill_level, THRESHOLDS.fill.flash)
    THEN << buildAlert(reading, "fill_critical", "critical",
                       Message(MsgFillFlash, reading.fill_level)) >>
    ELSE IF JsGt(reading.fill_level, THRESHOLDS.fill.critical)
    THEN << buildAlert(reading, "fill_critical", "high",
                       Message(MsgFillCritical, reading.fill_level)) >>
    ELSE IF JsGt(reading.fill_level, THRESHOLDS.fill.warning)
    THEN << buildAlert(reading, "fill_warning", "medium",
                       Message(MsgFillWarning, reading.fill_level)) >>
    ELSE << >>

fillAlerts(reading) ==
    IF JsGe(reading.fill_level, THRESHOLDS.fill.flash)
    THEN << buildAlert(reading, "fill_critical", "critical",
                       Message(MsgFillFlash, reading.fill_level)) >>
    ELSE IF JsGe(reading.fill_level, THRESHOLDS.fill.critical)
    THEN << buildAlert(reading, "fill_critical", "high",
                       Message(MsgFillCritical, reading.fill_level)) >>
    ELSE IF JsGe(reading.fill_level, THRESHOLDS.fill.warning)
    THEN << buildAlert(reading, "fill_warning", "medium",
                       Message(MsgFillWarning, reading.fill_level)) >>
    ELSE << >>

gasAlerts(reading) ==
    IF NotNullish(reading.gas_level)
    THEN IF JsGe(reading.gas_level, THRESHOLDS.gas.critical)
         THEN << buildAlert(reading, "gas_detected", "critical",
                            Message(MsgGasCritical, reading.gas_level)) >>
         ELSE IF JsGe(reading.gas_level, THRESHOLDS.gas.warning)
         THEN << buildAlert(reading, "gas_detected", "high",
                            Message(MsgGasWarning, reading.gas_level)) >>
         ELSE << >>
    ELSE << >>

temperatureAlerts(reading) ==
    IF NotNullish(reading.temperature)
    THEN IF JsGe(reading.temperature, THRESHOLDS.temperature.critical)
         THEN << buildAlert(reading, "maintenance_needed", "critical",
                            Message(MsgTempCritical, reading.temperature)) >>
         ELSE IF JsGe(reading.temperature, THRESHOLDS.temperature.warning)
         THEN << buildAlert(reading, "maintenance_needed", "high",
                            Message(MsgTempWarning, reading.temperature)) >>
         ELSE << >>
    ELSE << >>

\* batteryAlerts with each tier ending below its threshold (< for <=): a
\* faulty variant that the tier properties must tell from batteryAlerts
batteryAlertsBelow(reading) ==
    IF NotNullish(reading.battery_level)
    THEN IF JsLt(reading.battery_level, THRESHOLDS.battery.critical)
         THEN << buildAlert(reading, "maintenance_needed", "critical",
                            Message(MsgBatCritical, reading.battery_level)) >>
         ELSE IF JsLt(reading.battery_level, THRESHOLDS.battery.warning)
         THEN << buildAlert(reading, "maintenance_needed", "medium",
                            Message(MsgBatWarning, reading.battery_level)) >>
         ELSE << >>
    ELSE << >>

batteryAlerts(reading) ==
    IF NotNullish(reading.battery_level)
    THEN IF JsLe(reading.battery_level, THRESHOLDS.battery.critical)
         THEN << buildAlert(reading, "maintenance_needed", "critical",
                            Message(MsgBatCritical, reading.battery_level)) >>
         ELSE IF JsLe(reading.battery_level, THRESHOLDS.battery.warning)
         THEN << buildAlert(reading, "maintenance_needed", "medium",
                            Message(MsgBatWarning, reading.battery_level)) >>
         ELSE << >>
    ELSE << >>

\* thresholdAlerts with the battery check moved before the temperature check:
\* a faulty variant that the ordering property must tell from thresholdAlerts
thresholdAlertsBatteryFirst(reading) ==
    fillAlerts(reading) \o gasAlerts(reading)
        \o batteryAlerts(reading) \o temperatureAlerts(reading)

\* the `alerts` array evaluateReading has built when it reaches the insert
thresholdAlerts(reading) ==
    fillAlerts(reading) \o gasAlerts(reading)
        \o temperatureAlerts(reading) \o batteryAlerts(reading)


\* ------------------------------------------------------------------------
\* Store contents and handler state
\* ------------------------------------------------------------------------
VARIABLES
    bins,             \* bins table: bin id -> row
    sensor_readings,  \* sensor_readings table, in insertion order (id = position)
    alerts,           \* alerts table, in insertion order (id = position)
    notifications,    \* notifications table, in insertion order (id = position)
    collection_logs,  \* collection_logs table, in insertion order (id = position)
    users,            \* users table (read only)
    events,           \* messages handed to Socket.IO, with their multiplicity
    sockets,          \* the dashboards' sockets: connected or not, rooms joined
    received,         \* the messages each socket was sent, with their multiplicity
    proc,             \* the handler invocations in flight, with their locals
    started,          \* number of requests received so far
    response,         \* the response written last
    eval              \* a reading handed to the threshold evaluation, and its result

vars == << bins, sensor_readings, alerts, notifications, collection_logs,
           users, events, sockets, received, proc, started, response, eval >>

\* number of requests the server receives in one run
MaxRequests == 2

\* handler invocations that can be in flight at the same time
Procs == {1, 2}

\* new Date(): the clock, which has moved on whenever a request arrives
now == started

BinIds == {"b1", "b2"}
BinCode == [b1 |-> "BIN-001", b2 |-> "BIN-002"]

UserTable ==
    << [id |-> "u1", email |-> "admin@swms", phone |-> "+254700000001",
        role |-> "admin", is_active |-> TRUE],
       [id |-> "u2", email |-> "operator@swms", phone |-> "+254700000002",
        role |-> "operator", is_active |-> TRUE],
       [id |-> "u3", email |-> "collector@swms", phone |-> NullId,
        role |-> "collector", is_active |-> FALSE] >>
UserIds == {"u1", "u2", "u3"}

\* a string column or property is truthy unless null, undefined or empty
Truthy(s) == s # NullId /\ s # NoId /\ s # ""

Min(a, b) == IF a <= b THEN a ELSE b

\* ---- request bodies the clients send --------------------------------
IngestBody(code, fill, gas, temperature, battery) ==
    [bin_code |-> code, fill_level |-> fill, gas_level |-> gas,
     temperature |-> temperature, battery_level |-> battery]

IngestBodies ==
    { IngestBody("BIN-001", Num(60), Num(0), Num(0), Num(0)),
      IngestBody("BIN-002", Num(85), Undefined, Undefined, Num(15)),
      IngestBody("BIN-404", Num(60), Undefined, Undefined, Undefined),
      IngestBody("BIN-001", Num(101), Undefined, Undefined, Undefined),
      IngestBody("BIN-001", Undefined, Undefined, Undefined, Undefined),
      IngestBody("BIN-001", Null, Undefined, Undefined, Undefined),
      IngestBody(NoId, Num(60), Undefined, Undefined, Undefined) }

CollectionBodies ==
    { [bin_id |-> "b1", collected_by |-> "u3"],
      [bin_id |-> "b2", collected_by |-> NoId],
      [bin_id |-> "b404", collected_by |-> "u3"] }

ResolveBodies ==
    { [resolved |-> "true", resolved_by |-> "u1"],
      [resolved |-> "false", resolved_by |-> NoId],
      [resolved |-> "undefined", resolved_by |-> "u1"] }

\* ---- handler locals ---------------------------------------------------
NoBody == [none |-> TRUE]
NoRes  == [kind |-> "none", status |-> 0, reading |-> 0,
           alerts_generated |-> 0, collection |-> 0, alert |-> 0, error |-> ""]

IdleProc ==
    [pc |-> "idle", kind |-> "none", body |-> NoBody,
     bin |-> NoId, reading |-> << >>, data |-> << >>, ai |-> 0,
     usersL |-> << >>, ui |-> 0, channel |-> "none", notification |-> 0,
     delivered |-> FALSE, fill_before |-> 0, log |-> 0, updatedBin |-> << >>,
     open_at_start |-> {}, calls |-> << >>, emptied_seen |-> Null]

\* a request is handled by the first invocation that is not in flight
Free(p) ==
    /\ proc[p].pc = "idle"
    /\ \A q \in Procs : q < p => proc[q].pc # "idle"

\* res.status(s).json(...) of a handler
Status(kind, s) == [NoRes EXCEPT !.kind = kind, !.status = s]

\* ------------------------------------------------------------------------
\* WebSocket service: each emit is one message to everyone and one to the
\* bin's room
\* ------------------------------------------------------------------------
Everyone == "*"
Room(binId) == "bin_" \o binId

emitSensorReading(reading) ==
    << [event |-> "sensor_reading", room |-> Everyone, reading |-> reading],
       [event |-> "bin_update", room |-> Room(reading.bin_id), reading |-> reading] >>

\* emitAlert sending its second message to everyone too: a faulty variant
\* that the scoping of the messages must tell from emitAlert
emitAlertTwice(alert) ==
    << [event |-> "new_alert", room |-> Everyone, alert |-> alert],
       [event |-> "bin_alert", room |-> Everyone, alert |-> alert] >>

emitAlert(alert) ==
    << [event |-> "new_alert", room |-> Everyone, alert |-> alert],
       [event |-> "bin_alert", room |-> Room(alert.bin_id), alert |-> alert] >>

emitBinStatusUpdate(bin) ==
    << [event |-> "bin_status_update", room |-> Everyone, bin |-> bin],
       [event |-> "bin_update", room |-> Room(bin.id), bin |-> bin] >>

\* the messages of a sequence, as a bag
Emitted(ev) ==
    [m \in {ev[i] : i \in DOMAIN ev} |->
        Cardinality({i \in DOMAIN ev : ev[i] = m})]

\* the dashboards that may connect
Sockets == {"s1", "s2"}

\* a socket that is not connected is in no room
NoSocket == [connected |-> FALSE, rooms |-> {}]

\* io.emit reaches every connected socket, io.to(room).emit the connected
\* sockets that have joined the room
reaches(m, socket) ==
    socket.connected /\ (m.room = Everyone \/ m.room \in socket.rooms)

\* what the emits of a handler step add to the messages socket s was sent
sentTo(s, ev) == Emitted(SelectSeq(ev, LAMBDA m : reaches(m, sockets[s])))

\* io.on('connection'): a dashboard connects
connection(s) ==
    /\ ~sockets[s].connected
    /\ sockets' = [sockets EXCEPT ![s] = [connected |-> TRUE, rooms |-> {}]]
    /\ UNCHANGED << bins, sensor_readings, alerts, notifications,
                    collection_logs, users, events, received, proc, started,
                    response, eval >>

\* socket.on('subscribe_bin'): socket.join(`bin_${binId}`)
subscribe_bin(s, binId) ==
    /\ sockets[s].connected
    /\ sockets' = [sockets EXCEPT ![s].rooms = @ \cup {Room(binId)}]
    /\ UNCHANGED << bins, sensor_readings, alerts, notifications,
                    collection_logs, users, events, received, proc, started,
                    response, eval >>

\* socket.on('unsubscribe_bin'): socket.leave(`bin_${binId}`)
unsubscribe_bin(s, binId) ==
    /\ sockets[s].connected
    /\ sockets' = [sockets EXCEPT ![s].rooms = @ \ {Room(binId)}]
    /\ UNCHANGED << bins, sensor_readings, alerts, notifications,
                    collection_logs, users, events, received, proc, started,
                    response, eval >>

\* socket.on('disconnect'): the socket is gone, and with it its rooms
disconnect(s) ==
    /\ sockets[s].connected
    /\ sockets' = [sockets EXCEPT ![s] = NoSocket]
    /\ UNCHANGED << bins, sensor_readings, alerts, notifications,
                    collection_logs, users, events, received, proc, started,
                    response, eval >>

\* ------------------------------------------------------------------------
\* Notification service and the alert service's fan-out
\* ------------------------------------------------------------------------
\* the channel stubs, to be replaced by the providers' calls: each returns
\* what the transport answers (the stubs as written always answer true)
sendEmail(userId, message, answer) == answer
sendSMS(userId, message, answer)   == answer
sendPush(userId, message, answer)  == answer

\* the switch on the channel in sendNotification
deliver(channel, userId, message, answer) ==
    CASE channel = "email" -> sendEmail(userId, message, answer)
      [] channel = "sms"   -> sendSMS(userId, message, answer)
      [] channel = "push"  -> sendPush(userId, message, answer)
      [] OTHER             -> FALSE

\* relevantUsers without .eq('is_active', true): a faulty variant that the
\* recipients property must tell from relevantUsers
relevantUsersAnyStatus(table) ==
    SelectSeq(table, LAMBDA u : u.role \in {"admin", "collector"})

\* .from('users').in('role', ['admin', 'collector']).eq('is_active', true)
relevantUsers(table) ==
    SelectSeq(table, LAMBDA u : u.role \in {"admin", "collector"} /\ u.is_active)

\* nextSend without the test of the alert's severity before the sms: a faulty
\* variant that the fan-out property must tell from nextSend
RECURSIVE nextSendSmsToAll(_, _, _, _)
nextSendSmsToAll(us, alert, ui, channel) ==
    IF ui > Len(us) THEN [found |-> FALSE, ui |-> ui, channel |-> channel]
    ELSE IF channel = "email"
         THEN IF Truthy(us[ui].email)
              THEN [found |-> TRUE, ui |-> ui, channel |-> "email"]
              ELSE nextSendSmsToAll(us, alert, ui, "sms")
         ELSE IF Truthy(us[ui].phone)
              THEN [found |-> TRUE, ui |-> ui, channel |-> "sms"]
              ELSE nextSendSmsToAll(us, alert, ui + 1, "email")

\* the next sendNotification call of notifyRelevantUsers' loop, from user
\* number ui and the given channel on; found = FALSE when the loop is over
RECURSIVE nextSend(_, _, _, _)
nextSend(us, alert, ui, channel) ==
    IF ui > Len(us) THEN [found |-> FALSE, ui |-> ui, channel |-> channel]
    ELSE IF channel = "email"
         THEN IF Truthy(us[ui].email)
              THEN [found |-> TRUE, ui |-> ui, channel |-> "email"]
              ELSE nextSend(us, alert, ui, "sms")
         ELSE IF Truthy(us[ui].phone) /\ alert.severity = "critical"
              THEN [found |-> TRUE, ui |-> ui, channel |-> "sms"]
              ELSE nextSend(us, alert, ui + 1, "email")

\* first alert of data, from position i on, that notifyRelevantUsers is called for
RECURSIVE nextNotified(_, _)
nextNotified(data, i) ==
    IF i > Len(data) THEN i
    ELSE IF data[i].severity \in {"high", "critical"} THEN i
    ELSE nextNotified(data, i + 1)

RECURSIVE emitAlerts(_, _, _)
emitAlerts(data, i, j) ==
    IF i > j THEN << >> ELSE emitAlert(data[i]) \o emitAlerts(data, i + 1, j)

\* what a handler has done when it reaches its next await or its end: its
\* locals (pr), the messages it emitted (ev) and the response it wrote, if any
Goes(pr, ev)      == [pr |-> pr, ev |-> ev, res |-> << >>]
Responds(ev, res) == [pr |-> IdleProc, ev |-> ev, res |-> << res >>]

\* ingestResponse counting the candidates instead of the rows returned: a
\* faulty variant that the all-or-nothing property must tell from ingestResponse
ingestResponseCandidates(pr, returned) ==
    [NoRes EXCEPT !.kind = "ingest", !.status = 201, !.reading = pr.reading.id,
                  !.alerts_generated = Len(thresholdAlerts(pr.reading))]

\* receiveSensorData's response after evaluateReading has returned `returned`
ingestResponse(pr, returned) ==
    [NoRes EXCEPT !.kind = "ingest", !.status = 201, !.reading = pr.reading.id,
                  !.alerts_generated = Len(returned)]

\* alertLoop calling notifyRelevantUsers before emitAlert: a faulty variant
\* that the order of the steps must tell from alertLoop
alertLoopNotifiesFirst(pr, i) ==
    LET j == nextNotified(pr.data, i)
    IN  IF j <= Len(pr.data)
        THEN Goes([pr EXCEPT !.pc = "fetch_users", !.ai = j],
                  emitAlerts(pr.data, i, j - 1))
        ELSE Responds(emitAlerts(pr.data, i, Len(pr.data)),
                      ingestResponse(pr, pr.data))

\* evaluateReading's loop over the inserted alerts, run from alert number i up
\* to its next await (the users query of notifyRelevantUsers) or to its end
alertLoop(pr, i) ==
    LET j == nextNotified(pr.data, i)
        out == emitAlerts(pr.data, i, Min(j, Len(pr.data)))
    IN  IF j <= Len(pr.data)
        THEN Goes([pr EXCEPT !.pc = "fetch_users", !.ai = j], out)
        ELSE Responds(out, ingestResponse(pr, pr.data))

\* notifyRelevantUsers' loop over the users, run from (ui, channel) up to its
\* next await (a notification insert) or to its end
userLoop(pr, ui, channel) ==
    LET s == nextSend(pr.usersL, pr.data[pr.ai], ui, channel)
    IN  IF s.found
        THEN Goes([pr EXCEPT !.pc = "notif_insert", !.ui = s.ui,
                             !.channel = s.channel,
                             !.calls = Append(@, << pr.usersL[s.ui].id,
                                                    s.channel >>)], << >>)
        ELSE alertLoop(pr, pr.ai + 1)

\* where the loop goes on after the sendNotification call for (ui, channel)
afterSend(pr) ==
    IF pr.channel = "email" THEN userLoop(pr, pr.ui, "sms")
    ELSE userLoop(pr, pr.ui + 1, "email")

\* the effect of a step on the handler, the emitted messages and the response
Done(p, r) ==
    /\ proc' = [proc EXCEPT ![p] = r.pr]
    /\ events' = events (+) Emitted(r.ev)
    /\ received' = [s \in Sockets |-> received[s] (+) sentTo(s, r.ev)]
    /\ sockets' = sockets
    /\ response' = IF r.res = << >> THEN response ELSE r.res[1]

\* ------------------------------------------------------------------------
\* POST /api/devices/data : receiveSensorData
\* ------------------------------------------------------------------------
\* the request arrives: destructuring and validation, up to the bin lookup
receiveSensorData(p, body) ==
    /\ Free(p)
    /\ started < MaxRequests
    /\ started' = started + 1
    /\ Done(p, IF ~Truthy(body.bin_code) \/ body.fill_level = Undefined
               THEN Responds(<< >>, Status("ingest", 400))
               ELSE IF JsLt(body.fill_level, 0) \/ JsGt(body.fill_level, 100)
               THEN Responds(<< >>, Status("ingest", 400))
               ELSE Goes([IdleProc EXCEPT !.pc = "lookup_bin", !.kind = "ingest",
                                          !.body = body], << >>))
    /\ UNCHANGED << bins, sensor_readings, alerts, notifications,
                    collection_logs, users, eval >>

\* binsWithCode without its filter: a faulty variant that the not-found
\* property must tell from binsWithCode
binsWithAnyCode(code) == BinIds

\* the rows of .from('bins').select('id').eq('bin_code', bin_code)
binsWithCode(code) == {b \in BinIds : bins[b].bin_code = code}

\* the bin lookup (.single()): 404 `Bin with code "..." not found.` unless
\* the store returns the one row
lookupBin(p, ok) ==
    /\ proc[p].pc = "lookup_bin"
    /\ LET pr == proc[p]
           found == binsWithCode(pr.body.bin_code)
       IN  Done(p, IF ok /\ found # {}
                   THEN Goes([pr EXCEPT !.pc = "insert_reading",
                                        !.bin = CHOOSE b \in found : TRUE], << >>)
                   ELSE Responds(<< >>, [Status("ingest", 404) EXCEPT
                                            !.error = pr.body.bin_code]))
    /\ UNCHANGED << bins, sensor_readings, alerts, notifications,
                    collection_logs, users, started, eval >>

\* the row receiveSensorData hands to the sensor_readings insert
readingRow(pr, id) ==
    [id            |-> id,
     bin_id        |-> pr.bin,
     fill_level    |-> pr.body.fill_level,
     gas_level     |-> OrNull(pr.body.gas_level),
     temperature   |-> OrNull(pr.body.temperature),
     battery_level |-> OrNull(pr.body.battery_level)]

\* sensor_readings.fill_level is NOT NULL with CHECK 0-100
readingAccepted(row) ==
    row.fill_level.k = "num" /\ row.fill_level.v >= 0 /\ row.fill_level.v <= 100

\* afterReadingInsert without the test of readingErr: a faulty variant that
\* the abort on a failed primary write must tell from afterReadingInsert
afterReadingInsertGoesOn(pr, row, inserted) ==
    Goes([pr EXCEPT !.pc = "update_bin", !.reading = row], << >>)

\* receiveSensorData after the insert: 500 with the store's message when
\* readingErr is set, on to the bin update otherwise
afterReadingInsert(pr, row, inserted) ==
    IF inserted
    THEN Goes([pr EXCEPT !.pc = "update_bin", !.reading = row], << >>)
    ELSE Responds(<< >>, Status("ingest", 500))

\* .from('sensor_readings').insert({...}).select().single()
insertReading(p, ok) ==
    /\ proc[p].pc = "insert_reading"
    /\ LET pr  == proc[p]
           row == readingRow(pr, Len(sensor_readings) + 1)
           inserted == ok /\ readingAccepted(row)
       IN  /\ sensor_readings' = IF inserted THEN Append(sensor_readings, row)
                                 ELSE sensor_readings
           /\ Done(p, afterReadingInsert(
                          [pr EXCEPT !.emptied_seen = bins[pr.bin].last_emptied],
                          row, inserted))
    /\ UNCHANGED << bins, alerts, notifications, collection_logs, users,
                    started, eval >>

\* .from('bins').update({ fill_level }).eq('id', bin.id), then
\* emitSensorReading and evaluateReading up to its alerts insert
updateBinFill(p, ok) ==
    /\ proc[p].pc = "update_bin"
    /\ LET pr == proc[p]
       IN  /\ bins' = IF ok
                      THEN [bins EXCEPT ![pr.bin].fill_level = pr.body.fill_level.v]
                      ELSE bins
           /\ Done(p, IF Len(thresholdAlerts(pr.reading)) > 0
                      THEN Goes([pr EXCEPT !.pc = "insert_alerts"],
                                emitSensorReading(pr.reading))
                      ELSE Responds(emitSensorReading(pr.reading),
                                    ingestResponse(pr, << >>)))
    /\ UNCHANGED << sensor_readings, alerts, notifications, collection_logs,
                    users, started, eval >>

\* alertRows skipping a candidate when the table holds an open alert of its
\* bin and type: a de-duplicating variant that the no-suppression property
\* must tell from alertRows
alertRowsUnlessOpen(table, cands) ==
    LET fresh == SelectSeq(cands, LAMBDA c :
                     ~\E i \in 1..Len(table) :
                         /\ table[i].bin_id = c.bin_id
                         /\ table[i].alert_type = c.alert_type
                         /\ ~table[i].resolved)
    IN  [i \in 1..Len(fresh) |->
            [id          |-> Len(table) + i,
             bin_id      |-> fresh[i].bin_id,
             alert_type  |-> fresh[i].alert_type,
             severity    |-> fresh[i].severity,
             message     |-> fresh[i].message,
             resolved    |-> fresh[i].resolved,
             resolved_at |-> Null,
             resolved_by |-> NullId]]

\* the rows the insert of cands adds to the alerts table: the columns given,
\* an id, and the defaults of the other columns
alertRows(table, cands) ==
    [i \in 1..Len(cands) |->
        [id          |-> Len(table) + i,
         bin_id      |-> cands[i].bin_id,
         alert_type  |-> cands[i].alert_type,
         severity    |-> cands[i].severity,
         message     |-> cands[i].message,
         resolved    |-> cands[i].resolved,
         resolved_at |-> Null,
         resolved_by |-> NullId]]

\* .from('alerts').insert(alerts).select(), then the loop over the rows
insertAlerts(p, ok) ==
    /\ proc[p].pc = "insert_alerts"
    /\ LET pr   == proc[p]
           rows == alertRows(alerts, thresholdAlerts(pr.reading))
       IN  IF ok
           THEN /\ alerts' = alerts \o rows
                /\ Done(p, alertLoop([pr EXCEPT !.data = rows,
                                                !.emptied_seen = Null], 1))
           ELSE /\ alerts' = alerts
                /\ Done(p, Responds(<< >>, ingestResponse(pr, << >>)))
    /\ UNCHANGED << bins, sensor_readings, notifications, collection_logs,
                    users, started, eval >>

\* notifyRelevantUsers: the users query, then the loop over the users
fetchUsers(p, ok) ==
    /\ proc[p].pc = "fetch_users"
    /\ LET pr == proc[p]
       IN  Done(p, IF ok
                   THEN userLoop([pr EXCEPT !.usersL = relevantUsers(users),
                                            !.calls = << >>],
                                 1, "email")
                   ELSE alertLoop(pr, pr.ai + 1))
    /\ UNCHANGED << bins, sensor_readings, alerts, notifications,
                    collection_logs, users, started, eval >>

\* afterInsert going on to the delivery whether the insert failed or not: a
\* faulty variant that the insert-before-delivery property must tell from
\* afterInsert
afterInsertAnyway(pr, row, ok) ==
    Goes([pr EXCEPT !.pc = "notif_deliver", !.notification = row.id], << >>)

\* afterInsert giving up the alert's remaining recipients when the insert
\* failed: a faulty variant that the independence of the fan-out must tell
\* from afterInsert
afterInsertGivesUp(pr, row, ok) ==
    IF ok
    THEN Goes([pr EXCEPT !.pc = "notif_deliver", !.notification = row.id], << >>)
    ELSE alertLoop(pr, pr.ai + 1)

\* sendNotification after its insert: back to the caller's loop when the
\* insert failed, on to the delivery of the inserted row otherwise
afterInsert(pr, row, ok) ==
    IF ok
    THEN Goes([pr EXCEPT !.pc = "notif_deliver", !.notification = row.id], << >>)
    ELSE afterSend(pr)

\* sendNotification: the insert of the pending row
insertNotification(p, ok) ==
    /\ proc[p].pc = "notif_insert"
    /\ LET pr    == proc[p]
           alert == pr.data[pr.ai]
           user  == pr.usersL[pr.ui]
           row   == [id       |-> Len(notifications) + 1,
                     user_id  |-> user.id,
                     alert_id |-> alert.id,
                     channel  |-> pr.channel,
                     message  |-> alert.message,
                     status   |-> "pending",
                     sent_at  |-> Null]
       IN  /\ notifications' = IF ok THEN Append(notifications, row)
                               ELSE notifications
           /\ Done(p, afterInsert(pr, row, ok))
    /\ UNCHANGED << bins, sensor_readings, alerts, collection_logs, users,
                    started, eval >>

\* afterDelivery turning a refused delivery into an error of the request: a
\* faulty variant that the containment of delivery failures must tell from
\* afterDelivery
afterDeliveryRaises(pr, delivered) ==
    IF delivered
    THEN Goes([pr EXCEPT !.pc = "notif_update", !.delivered = delivered], << >>)
    ELSE Responds(<< >>, Status("ingest", 500))

\* sendNotification once the transport has answered: on to the status update
afterDelivery(pr, delivered) ==
    Goes([pr EXCEPT !.pc = "notif_update", !.delivered = delivered], << >>)

\* sendNotification: the transport of the row's channel answers the delivery
\* (await sendEmail / sendSMS / sendPush); answer is what it returns
deliverNotification(p, answer) ==
    /\ proc[p].pc = "notif_deliver"
    /\ LET pr == proc[p]
       IN  Done(p, afterDelivery(pr, deliver(pr.channel, pr.usersL[pr.ui].id,
                                             pr.data[pr.ai].message, answer)))
    /\ UNCHANGED << bins, sensor_readings, alerts, notifications,
                    collection_logs, users, started, eval >>

\* statusUpdate stamping sent_at whatever the delivery's outcome: a faulty
\* variant that the status lifecycle property must tell from statusUpdate
statusUpdateStamped(row, delivered, at) ==
    [row EXCEPT !.status  = IF delivered THEN "sent" ELSE "failed",
                !.sent_at = Num(at)]

\* .update({ status: newStatus, sent_at }) of the notification row
statusUpdate(row, delivered, at) ==
    [row EXCEPT !.status  = IF delivered THEN "sent" ELSE "failed",
                !.sent_at = IF delivered THEN Num(at) ELSE Null]

\* sendNotification: the update of the row's status, then back to the loop
updateNotification(p, ok) ==
    /\ proc[p].pc = "notif_update"
    /\ LET pr == proc[p]
       IN  /\ notifications' =
                 IF ok
                 THEN [notifications EXCEPT ![pr.notification] =
                          statusUpdate(@, pr.delivered, now)]
                 ELSE notifications
           /\ Done(p, afterSend(pr))
    /\ UNCHANGED << bins, sensor_readings, alerts, collection_logs, users,
                    started, eval >>

\* ------------------------------------------------------------------------
\* POST /api/collections : createCollection
\* ------------------------------------------------------------------------
openAlertsOf(binId) ==
    {i \in 1..Len(alerts) : alerts[i].bin_id = binId /\ ~alerts[i].resolved}

\* the request arrives: destructuring and the bin_id check
createCollection(p, body) ==
    /\ Free(p)
    /\ started < MaxRequests
    /\ started' = started + 1
    /\ Done(p, IF ~Truthy(body.bin_id)
               THEN Responds(<< >>, Status("collection", 400))
               ELSE Goes([IdleProc EXCEPT !.pc = "c_fetch_bin",
                                          !.kind = "collection", !.body = body,
                                          !.open_at_start = openAlertsOf(body.bin_id)],
                         << >>))
    /\ UNCHANGED << bins, sensor_readings, alerts, notifications,
                    collection_logs, users, eval >>

\* .from('bins').select('id, fill_level').eq('id', bin_id).single()
fetchBin(p, ok) ==
    /\ proc[p].pc = "c_fetch_bin"
    /\ LET pr == proc[p]
       IN  Done(p, IF ok /\ pr.body.bin_id \in BinIds
                   THEN Goes([pr EXCEPT !.pc = "c_insert_log",
                                        !.bin = pr.body.bin_id,
                                        !.fill_before = bins[pr.body.bin_id].fill_level],
                             << >>)
                   ELSE Responds(<< >>, Status("collection", 404)))
    /\ UNCHANGED << bins, sensor_readings, alerts, notifications,
                    collection_logs, users, started, eval >>

\* collectionLogRow with the two fill columns mixed up: a faulty variant that
\* the log's contents must tell from collectionLogRow
collectionLogRowAfter(pr, id) ==
    [id                |-> id,
     bin_id            |-> pr.body.bin_id,
     collected_by      |-> IdOrNull(pr.body.collected_by),
     fill_level_before |-> 0,
     fill_level_after  |-> pr.fill_before]

\* the row createCollection hands to the collection_logs insert; bin is the
\* row the handler fetched
collectionLogRow(pr, id) ==
    [id                |-> id,
     bin_id            |-> pr.body.bin_id,
     collected_by      |-> IdOrNull(pr.body.collected_by),
     fill_level_before |-> pr.fill_before,
     fill_level_after  |-> 0]

\* createCollection after the insert: 500 with the store's message when
\* logErr is set, on to the bin's reset otherwise
afterLogInsert(pr, row, inserted) ==
    IF inserted
    THEN Goes([pr EXCEPT !.pc = "c_update_bin", !.log = row.id], << >>)
    ELSE Responds(<< >>, Status("collection", 500))

\* .from('collection_logs').insert({...}).select().single()
insertCollectionLog(p, ok) ==
    /\ proc[p].pc = "c_insert_log"
    /\ LET pr  == proc[p]
           row == collectionLogRow(pr, Len(collection_logs) + 1)
       IN  /\ collection_logs' = IF ok THEN Append(collection_logs, row)
                                 ELSE collection_logs
           /\ Done(p, afterLogInsert(pr, row, ok))
    /\ UNCHANGED << bins, sensor_readings, alerts, notifications, users,
                    started, eval >>

\* .from('bins').update({ fill_level: 0, last_emptied }).eq('id', bin_id)
\*     .select().single()
resetBin(p, ok) ==
    /\ proc[p].pc = "c_update_bin"
    /\ LET pr  == proc[p]
           row == [bins[pr.bin] EXCEPT !.fill_level = 0, !.last_emptied = Num(now)]
       IN  /\ bins' = IF ok THEN [bins EXCEPT ![pr.bin] = row] ELSE bins
           /\ Done(p, Goes([pr EXCEPT !.pc = "c_resolve",
                                      !.updatedBin = IF ok THEN << row >> ELSE << >>],
                           << >>))
    /\ UNCHANGED << sensor_readings, alerts, notifications, collection_logs,
                    users, started, eval >>

\* resolveOpenAlerts without .eq('resolved', false): a faulty variant that the
\* framing property must tell from resolveOpenAlerts
resolveEveryAlert(table, binId, collected_by, at) ==
    [i \in 1..Len(table) |->
        IF table[i].bin_id = binId
        THEN [table[i] EXCEPT !.resolved = TRUE,
                              !.resolved_at = Num(at),
                              !.resolved_by = IdOrNull(collected_by)]
        ELSE table[i]]

\* .from('alerts').update({ resolved: true, resolved_at, resolved_by })
\*     .eq('bin_id', bin_id).eq('resolved', false)
resolveOpenAlerts(table, binId, collected_by, at) ==
    [i \in 1..Len(table) |->
        IF table[i].bin_id = binId /\ table[i].resolved = FALSE
        THEN [table[i] EXCEPT !.resolved = TRUE,
                              !.resolved_at = Num(at),
                              !.resolved_by = IdOrNull(collected_by)]
        ELSE table[i]]

\* the alerts update, then emitBinStatusUpdate and the response
resolveAlerts(p, ok) ==
    /\ proc[p].pc = "c_resolve"
    /\ LET pr == proc[p]
       IN  /\ alerts' = IF ok
                        THEN resolveOpenAlerts(alerts, pr.body.bin_id,
                                               pr.body.collected_by, now)
                        ELSE alerts
           /\ Done(p, Responds(IF pr.updatedBin # << >>
                               THEN emitBinStatusUpdate(pr.updatedBin[1])
                               ELSE << >>,
                               [NoRes EXCEPT !.kind = "collection", !.status = 201,
                                             !.collection = pr.log]))
    /\ UNCHANGED << bins, sensor_readings, notifications, collection_logs,
                    users, started, eval >>

\* ------------------------------------------------------------------------
\* PATCH /api/alerts/:id : resolveAlert
\* ------------------------------------------------------------------------
\* the row after .update(updatePayload)
patchAlert(row, body, at) ==
    LET r1 == IF body.resolved # "undefined"
              THEN [row EXCEPT !.resolved = (body.resolved = "true"),
                               !.resolved_at = IF body.resolved = "true"
                                               THEN Num(at) ELSE Null]
              ELSE row
    IN  IF Truthy(body.resolved_by)
        THEN [r1 EXCEPT !.resolved_by = body.resolved_by]
        ELSE r1

\* the whole handler: its only await is the update
resolveAlert(p, id, body, ok) ==
    /\ Free(p)
    /\ started < MaxRequests
    /\ started' = started + 1
    /\ IF ok /\ id \in 1..Len(alerts)
       THEN /\ alerts' = [alerts EXCEPT ![id] = patchAlert(@, body, now)]
            /\ Done(p, Responds(<< >>, [NoRes EXCEPT !.kind = "resolveAlert",
                                                     !.status = 200, !.alert = id]))
       ELSE /\ alerts' = alerts
            /\ Done(p, Responds(<< >>, Status("resolveAlert", 404)))
    /\ UNCHANGED << bins, sensor_readings, notifications, collection_logs,
                    users, eval >>

\* ------------------------------------------------------------------------
\* The server
\* ------------------------------------------------------------------------
NoEval == [reading |-> << >>, done |-> FALSE, alerts |-> << >>]

NewBin(b) ==
    [id |-> b, bin_code |-> BinCode[b], fill_level |-> 0, last_emptied |-> Null]

\* the store of a fresh deployment: the bins and the users are registered
FreshStore ==
    /\ bins = [b \in BinIds |-> NewBin(b)]
    /\ sensor_readings = << >>
    /\ alerts = << >>
    /\ notifications = << >>
    /\ collection_logs = << >>
    /\ users = UserTable

\* the store an earlier run of the server has left: bin b1 reported 60 % and
\* was then emptied by collector u3, which resolved its alert
UsedStore ==
    LET r == [id |-> 1, bin_id |-> "b1", fill_level |-> Num(60),
              gas_level |-> Null, temperature |-> Null, battery_level |-> Null]
    IN  /\ bins = [b \in BinIds |->
                      IF b = "b1"
                      THEN [NewBin(b) EXCEPT !.last_emptied = Num(0)]
                      ELSE NewBin(b)]
        /\ sensor_readings = << r >>
        /\ alerts = resolveOpenAlerts(alertRows(<< >>, thresholdAlerts(r)),
                                      "b1", "u3", 0)
        /\ notifications = << >>
        /\ collection_logs =
               << [id |-> 1, bin_id |-> "b1", collected_by |-> "u3",
                   fill_level_before |-> 60, fill_level_after |-> 0] >>
        /\ users = UserTable

\* the server has started: nothing is in flight, nothing was emitted
InitServer ==
    /\ events = EmptyBag
    /\ sockets = [s \in Sockets |-> NoSocket]
    /\ received = [s \in Sockets |-> EmptyBag]
    /\ proc = [p \in Procs |-> IdleProc]
    /\ started = 0
    /\ response = NoRes

Init == (FreshStore \/ UsedStore) /\ InitServer /\ eval = NoEval

Next ==
    \/ \E p \in Procs, body \in IngestBodies : receiveSensorData(p, body)
    \/ \E p \in Procs, ok \in BOOLEAN : lookupBin(p, ok)
    \/ \E p \in Procs, ok \in BOOLEAN : insertReading(p, ok)
    \/ \E p \in Procs, ok \in BOOLEAN : updateBinFill(p, ok)
    \/ \E p \in Procs, ok \in BOOLEAN : insertAlerts(p, ok)
    \/ \E p \in Procs, ok \in BOOLEAN : fetchUsers(p, ok)
    \/ \E p \in Procs, ok \in BOOLEAN : insertNotification(p, ok)
    \/ \E p \in Procs, answer \in BOOLEAN : deliverNotification(p, answer)
    \/ \E p \in Procs, ok \in BOOLEAN : updateNotification(p, ok)
    \/ \E p \in Procs, body \in CollectionBodies : createCollection(p, body)
    \/ \E p \in Procs, ok \in BOOLEAN : fetchBin(p, ok)
    \/ \E p \in Procs, ok \in BOOLEAN : insertCollectionLog(p, ok)
    \/ \E p \in Procs, ok \in BOOLEAN : resetBin(p, ok)
    \/ \E p \in Procs, ok \in BOOLEAN : resolveAlerts(p, ok)
    \/ \E p \in Procs, id \in 1..(Len(alerts) + 1), body \in ResolveBodies,
          ok \in BOOLEAN : resolveAlert(p, id, body, ok)

Spec == Init /\ [][Next]_vars

\* ------------------------------------------------------------------------
\* Threshold evaluation on its own: a reading row is handed to
\* evaluateReading, which builds its candidate list
\* ------------------------------------------------------------------------
\* sensor_readings rows: fill_level is NOT NULL within 0-100, the other
\* measurements are nullable; the values lie around the thresholds
FillLevels    == {Num(n) : n \in 0..100}
GasLevels     == {Null, Undefined} \cup {Num(n) : n \in {0, 199, 200, 499, 500, 501}}
Temperatures  == {Null, Undefined} \cup {Num(n) : n \in {0, 44, 45, 59, 60, 61}}
BatteryLevels == {Null, Undefined} \cup {Num(n) : n \in {0, 10, 11, 20, 21, 100}}

Readings ==
    {[id |-> 1, bin_id |-> "b1", fill_level |-> f, gas_level |-> g,
      temperature |-> t, battery_level |-> b] :
        f \in FillLevels, g \in GasLevels, t \in Temperatures, b \in BatteryLevels}

InitEval ==
    /\ FreshStore
    /\ InitServer
    /\ eval \in {[NoEval EXCEPT !.reading = r] : r \in Readings}

\* evaluateReading up to its insert: the four checks, in order
evaluate ==
    /\ ~eval.done
    /\ eval' = [eval EXCEPT !.done = TRUE, !.alerts = thresholdAlerts(eval.reading)]
    /\ UNCHANGED << bins, sensor_readings, alerts, notifications,
                    collection_logs, users, events, sockets, received, proc,
                    started, response >>

NextEval == evaluate

SpecEval == InitEval /\ [][NextEval]_vars

\* ------------------------------------------------------------------------
\* The notification fan-out of one ingestion on its own: a deployment with
\* two recipients (an admin with a phone, a collector without), an operator
\* and a deactivated admin receives one reading that breaches three
\* thresholds
\* ------------------------------------------------------------------------
Staff ==
    << [id |-> "u1", email |-> "admin@swms", phone |-> "+254700000001",
        role |-> "admin", is_active |-> TRUE],
       [id |-> "u2", email |-> "operator@swms", phone |-> "+254700000002",
        role |-> "operator", is_active |-> TRUE],
       [id |-> "u3", email |-> "collector@swms", phone |-> NullId,
        role |-> "collector", is_active |-> TRUE],
       [id |-> "u4", email |-> "former@swms", phone |-> "+254700000004",
        role |-> "admin", is_active |-> FALSE] >>

\* fill 60 % is a medium alert, gas at 250 ppm a high one, battery 5 % a
\* critical one
NotifyBodies ==
    { IngestBody("BIN-001", Num(60), Num(250), Undefined, Num(5)) }

InitNotify ==
    /\ bins = [b \in BinIds |-> NewBin(b)]
    /\ sensor_readings = << >>
    /\ alerts = << >>
    /\ notifications = << >>
    /\ collection_logs = << >>
    /\ users = Staff
    /\ InitServer
    /\ eval = NoEval

\* the steps of the ingestion run by p that wait for the store, the store
\* answering one of oks
storeSteps(p, oks) ==
    \/ \E ok \in oks : lookupBin(p, ok)
    \/ \E ok \in oks : insertReading(p, ok)
    \/ \E ok \in oks : updateBinFill(p, ok)
    \/ \E ok \in oks : insertAlerts(p, ok)
    \/ \E ok \in oks : fetchUsers(p, ok)
    \/ \E ok \in oks : insertNotification(p, ok)
    \/ \E ok \in oks : updateNotification(p, ok)

\* the step that waits for the delivery transport
transportSteps(p) == \E answer \in BOOLEAN : deliverNotification(p, answer)

\* the steps of the ingestion run by p
ingestSteps(p, oks) == storeSteps(p, oks) \/ transportSteps(p)

\* the first request of the run is the reading
firstReading ==
    \E body \in NotifyBodies : started = 0 /\ receiveSensorData(1, body)

\* the store may fail any call
NextNotify == firstReading \/ ingestSteps(1, BOOLEAN)

SpecNotify == InitNotify /\ [][NextNotify]_vars

\* the store answers every call, with a result or an error, and the event
\* loop runs the handler on; nothing makes the transport answer
SpecNotifyFair ==
    SpecNotify /\ WF_vars(firstReading) /\ WF_vars(storeSteps(1, BOOLEAN))

\* the store accepts every call
NextReliable == firstReading \/ ingestSteps(1, {TRUE})

SpecReliable == InitNotify /\ [][NextReliable]_vars

\* ------------------------------------------------------------------------
\* Readings and collections of one bin on their own: bin b1 of a fresh
\* deployment reports 0 %, 40 % or 60 % (60 % raises a medium alert, which
\* notifies nobody) and is collected by u3, the requests running side by
\* side; the store accepts every call
\* ------------------------------------------------------------------------
BinBodies ==
    { IngestBody("BIN-001", Num(f), Undefined, Undefined, Undefined) :
          f \in {0, 40, 60} }

BinCollections == { [bin_id |-> "b1", collected_by |-> "u3"] }

InitBin == FreshStore /\ InitServer /\ eval = NoEval

\* the steps of the ingestion run by p, from the bin lookup to the alerts
\* insert, the store answering one of oks
readingSteps(p, oks) ==
    \/ \E ok \in oks : lookupBin(p, ok)
    \/ \E ok \in oks : insertReading(p, ok)
    \/ \E ok \in oks : updateBinFill(p, ok)
    \/ \E ok \in oks : insertAlerts(p, ok)

\* the steps of the collection run by p, the store answering one of oks
collectionSteps(p, oks) ==
    \/ \E ok \in oks : fetchBin(p, ok)
    \/ \E ok \in oks : insertCollectionLog(p, ok)
    \/ \E ok \in oks : resetBin(p, ok)
    \/ \E ok \in oks : resolveAlerts(p, ok)

NextBin ==
    \E p \in Procs :
        \/ \E body \in BinBodies : receiveSensorData(p, body)
        \/ \E body \in BinCollections : createCollection(p, body)
        \/ readingSteps(p, {TRUE})
        \/ collectionSteps(p, {TRUE})

SpecBin == InitBin /\ [][NextBin]_vars

\* ------------------------------------------------------------------------
\* The dashboards' side: while bin b1 reports 60 %, which raises an alert,
\* and is then collected, two dashboards connect, subscribe to bins,
\* unsubscribe and disconnect as they like; the store accepts every call
\* ------------------------------------------------------------------------
WatchedBodies ==
    { IngestBody("BIN-001", Num(60), Undefined, Undefined, Undefined) }

\* the first request of the run is the reading
watchedReading ==
    \E body \in WatchedBodies : started = 0 /\ receiveSensorData(1, body)

\* the second is the collection
watchedCollection ==
    \E body \in BinCollections : started = 1 /\ createCollection(1, body)

\* what the dashboards do
socketSteps ==
    \E s \in Sockets :
        \/ connection(s)
        \/ \E b \in BinIds : subscribe_bin(s, b)
        \/ \E b \in BinIds : unsubscribe_bin(s, b)
        \/ disconnect(s)

NextObservers ==
    \/ watchedReading
    \/ watchedCollection
    \/ readingSteps(1, {TRUE})
    \/ collectionSteps(1, {TRUE})
    \/ socketSteps

SpecObservers == InitBin /\ [][NextObservers]_vars

\* ------------------------------------------------------------------------
\* Properties
\* ------------------------------------------------------------------------
\* the measurement a candidate was raised for, read off its message
Field(a) ==
    CASE a.message.text \in {MsgFillFlash, MsgFillCritical, MsgFillWarning} -> "fill"
      [] a.message.text \in {MsgGasCritical, MsgGasWarning}    -> "gas"
      [] a.message.text \in {MsgTempCritical, MsgTempWarning}  -> "temperature"
      [] a.message.text \in {MsgBatCritical, MsgBatWarning}    -> "battery"

Rank(field) ==
    CASE field = "fill" -> 1 [] field = "gas" -> 2
      [] field = "temperature" -> 3 [] field = "battery" -> 4

\* the candidates of a list raised for one measurement
CandidatesFor(as, field) == SelectSeq(as, LAMBDA a : Field(a) = field)

\* the list holds exactly one candidate, of the given type and severity
OneOf(as, alertType, severity) ==
    /\ Len(as) = 1
    /\ as[1].alert_type = alertType
    /\ as[1].severity = severity
    /\ as[1].bin_id = eval.reading.bin_id
    /\ as[1].resolved = FALSE

Absent(x) == x.k # "num"

\* C1: for every reading the evaluation yields exactly one fill candidate when
\* fill_level >= 50 and none below 50: fill_warning/medium in [50,80),
\* fill_critical/high in [80,95), fill_critical/critical from 95 on.
C1_FillTiers ==
    eval.done =>
        LET f == eval.reading.fill_level.v
            c == CandidatesFor(eval.alerts, "fill")
        IN  /\ f < 50 => c = << >>
            /\ (f >= 50 /\ f < 80) => OneOf(c, "fill_warning", "medium")
            /\ (f >= 80 /\ f < 95) => OneOf(c, "fill_critical", "high")
            /\ f >= 95 => OneOf(c, "fill_critical", "critical")
            /\ \A i \in 1..Len(eval.alerts) :
                   eval.alerts[i].alert_type \in {"fill_warning", "fill_critical"}
                       <=> Field(eval.alerts[i]) = "fill"

\* a reading at exactly 80 % has been evaluated and got its high candidate
C1_Witness ==
    /\ eval.done
    /\ eval.reading.fill_level = Num(80)
    /\ eval.alerts[1].alert_type = "fill_critical"
    /\ eval.alerts[1].severity = "high"

\* the tiers of one optional measurement whose breach is a high value
HighTiers(x, c, alertType, warning, critical) ==
    /\ (Absent(x) \/ x.v < warning) => c = << >>
    /\ (~Absent(x) /\ x.v >= warning /\ x.v < critical) => OneOf(c, alertType, "high")
    /\ (~Absent(x) /\ x.v >= critical) => OneOf(c, alertType, "critical")

\* C2: for every reading evaluated, battery <= 10 gives maintenance_needed/
\* critical, battery in (10,20] maintenance_needed/medium, battery > 20 or
\* absent nothing; gas >= 500 gives gas_detected/critical, gas in [200,500)
\* gas_detected/high, gas < 200 or absent nothing; temperature >= 60 gives
\* maintenance_needed/critical, temperature in [45,60) maintenance_needed/high,
\* temperature < 45 or absent nothing.
C2_OptionalTiers ==
    eval.done =>
        LET r == eval.reading
            b == r.battery_level
            c == CandidatesFor(eval.alerts, "battery")
        IN  /\ (Absent(b) \/ b.v > 20) => c = << >>
            /\ (~Absent(b) /\ b.v <= 10) => OneOf(c, "maintenance_needed", "critical")
            /\ (~Absent(b) /\ b.v > 10 /\ b.v <= 20)
                   => OneOf(c, "maintenance_needed", "medium")
            /\ HighTiers(r.gas_level, CandidatesFor(eval.alerts, "gas"),
                         "gas_detected", 200, 500)
            /\ HighTiers(r.temperature, CandidatesFor(eval.alerts, "temperature"),
                         "maintenance_needed", 45, 60)

\* a reading on the three inclusive bounds (battery 10, gas 200, temperature
\* 45) has been evaluated: battery critical, gas and temperature high
C2_Witness ==
    /\ eval.done
    /\ eval.reading.battery_level = Num(10)
    /\ eval.reading.gas_level = Num(200)
    /\ eval.reading.temperature = Num(45)
    /\ eval.reading.fill_level = Num(0)
    /\ Len(eval.alerts) = 3
    /\ eval.alerts[3].severity = "critical"
    /\ eval.alerts[1].severity = "high"
    /\ eval.alerts[2].severity = "high"

\* the reading as the device submitted it: a measurement that was not
\* reported is null, a reported one keeps its value
Submitted(pr) ==
    LET as(x) == IF x = Undefined THEN Null ELSE x
    IN  [pr.reading EXCEPT !.gas_level     = as(pr.body.gas_level),
                           !.temperature   = as(pr.body.temperature),
                           !.battery_level = as(pr.body.battery_level)]

\* C3: in the ingestion workflow every reported optional measurement, the
\* value 0 included, is persisted on the reading as submitted and evaluated
\* against its thresholds (a submitted battery_level of 0 yields a
\* maintenance_needed/critical candidate); only a measurement that was not
\* reported is skipped.
C3_ReportedIsEvaluated ==
    \A p \in Procs :
        proc[p].pc \in {"update_bin", "insert_alerts"} =>
            /\ proc[p].reading = Submitted(proc[p])
            /\ sensor_readings[proc[p].reading.id] = Submitted(proc[p])
            /\ thresholdAlerts(proc[p].reading) = thresholdAlerts(Submitted(proc[p]))
            /\ proc[p].body.battery_level = Num(0) =>
                   \E i \in 1..Len(thresholdAlerts(proc[p].reading)) :
                       LET a == thresholdAlerts(proc[p].reading)[i]
                       IN  /\ Field(a) = "battery"
                           /\ a.alert_type = "maintenance_needed"
                           /\ a.severity = "critical"

\* C4: the candidate list of one reading holds at most one candidate per
\* measured field, hence at most four, and the candidates appear in the order
\* fill, gas, temperature, battery whatever combination of fields breaches.
C4_OnePerFieldInOrder ==
    eval.done =>
        /\ Len(eval.alerts) <= 4
        /\ \A f \in {"fill", "gas", "temperature", "battery"} :
               Len(CandidatesFor(eval.alerts, f)) <= 1
        /\ \A i, j \in 1..Len(eval.alerts) :
               i < j => Rank(Field(eval.alerts[i])) < Rank(Field(eval.alerts[j]))

\* all four fields of a reading breach and the four candidates are there
C4_Witness ==
    /\ eval.done
    /\ Len(eval.alerts) = 4
    /\ eval.reading.fill_level = Num(95)
    /\ Field(eval.alerts[3]) = "temperature"
    /\ Field(eval.alerts[4]) = "battery"

\* C5: in every reachable state every alert with resolved = false has neither
\* a resolved_at nor a resolved_by.
C5_OpenHasNoResolution ==
    \A i \in 1..Len(alerts) :
        ~alerts[i].resolved =>
            alerts[i].resolved_at = Null /\ alerts[i].resolved_by = NullId

\* C6: the manual resolution of one alert, called with resolved = false on a
\* resolved alert, leaves the alert with resolved = false, resolved_at
\* cleared and resolved_by cleared.
C6_UnresolveClears ==
    [][\A p \in Procs, id \in 1..Len(alerts), body \in ResolveBodies :
          (body.resolved = "false" /\ alerts[id].resolved
              /\ resolveAlert(p, id, body, TRUE))
          => /\ alerts'[id].resolved = FALSE
             /\ alerts'[id].resolved_at = Null
             /\ alerts'[id].resolved_by = NullId]_vars

\* the step on which createCollection, run by p, writes its 201 response
Collected(p) == proc[p].pc = "c_resolve" /\ proc'[p].pc = "idle"

\* C7: when a collection of bin B by collector C completes, every alert of B
\* that was open when the collection started has resolved = true,
\* resolved_by = C (null when no collector was given) and resolved_at set.
C7_CollectionResolves ==
    [][\A p \in Procs :
          Collected(p) =>
              \A i \in proc[p].open_at_start :
                  /\ alerts'[i].resolved = TRUE
                  /\ alerts'[i].resolved_by = IdOrNull(proc[p].body.collected_by)
                  /\ alerts'[i].resolved_at # Null]_vars

\* C8: resolving the open alerts of bin B is idempotent and framed: when a
\* collection of B completes, the alerts of B that were already resolved keep
\* their resolved_at and resolved_by, the alerts of the other bins are
\* unchanged, no row is added or removed, and with no open alert of B no alert
\* row changes at all.
C8_ResolveIsFramed ==
    [][\A p \in Procs :
          Collected(p) =>
              /\ Len(alerts') = Len(alerts)
              /\ \A i \in 1..Len(alerts) :
                     (alerts[i].bin_id # proc[p].body.bin_id \/ alerts[i].resolved)
                         => alerts'[i] = alerts[i]
              /\ openAlertsOf(proc[p].body.bin_id) = {} => alerts' = alerts]_vars

\* bin b1 was collected at time 0, which resolved its alert, and collected
\* again: the alert still carries the first collection's time
C8_Witness ==
    /\ Len(collection_logs) = 2
    /\ collection_logs[2].bin_id = "b1"
    /\ response.kind = "collection"
    /\ response.status = 201
    /\ response.collection = 2
    /\ Len(alerts) = 1
    /\ alerts[1].bin_id = "b1"
    /\ alerts[1].resolved
    /\ alerts[1].resolved_at = Num(0)
    /\ alerts[1].resolved_by = "u3"
    /\ now > 0

\* C9: a breaching reading whose alerts are stored adds one new open alert
\* row per candidate whatever alerts exist already, the open alerts of the
\* same bin and type included: the rows there stay as they are and N such
\* readings add N rows (no de-duplication, no suppression).
C9_NoSuppression ==
    [][\A p \in Procs :
          (proc[p].pc = "insert_alerts" /\ insertAlerts(p, TRUE)) =>
              LET cands == thresholdAlerts(proc[p].reading)
                  n     == Len(alerts)
              IN  /\ Len(cands) > 0
                  /\ Len(alerts') = n + Len(cands)
                  /\ \A i \in 1..n : alerts'[i] = alerts[i]
                  /\ \A i \in 1..Len(cands) :
                         /\ alerts'[n + i].bin_id = proc[p].reading.bin_id
                         /\ alerts'[n + i].alert_type = cands[i].alert_type
                         /\ alerts'[n + i].severity = cands[i].severity
                         /\ alerts'[n + i].resolved = FALSE]_vars

\* two readings of bin b1 breached the same threshold and both alerts are open
C9_Witness ==
    /\ Len(sensor_readings) = 2
    /\ collection_logs = << >>
    /\ Len(alerts) = 2
    /\ \A i \in 1..2 :
           /\ alerts[i].bin_id = "b1"
           /\ alerts[i].alert_type = "fill_warning"
           /\ ~alerts[i].resolved
    /\ \A i \in 1..2 : sensor_readings[i].bin_id = "b1"

\* the steps of an ingestion from its alerts insert on
AfterInsert == {"fetch_users", "notif_insert", "notif_deliver", "notif_update"}

\* C10: the alerts insert of one reading is all-or-nothing. When it fails no
\* alert row is added, no alert event is published, no notification is
\* created and the request answers 201 with the persisted reading and
\* alerts_generated = 0; when it succeeds every candidate has its row and the
\* request answers with alerts_generated = the number of candidates.
C10_AllOrNothing ==
    [][\A p \in Procs :
          LET pr == proc[p]
              n  == Len(thresholdAlerts(pr.reading))
          IN  /\ (pr.pc = "insert_alerts" /\ proc'[p].pc # "insert_alerts") =>
                     \/ /\ alerts' = alerts
                        /\ events' = events
                        /\ notifications' = notifications
                        /\ proc'[p].pc = "idle"
                        /\ response'.kind = "ingest"
                        /\ response'.status = 201
                        /\ response'.reading = pr.reading.id
                        /\ sensor_readings'[pr.reading.id] = pr.reading
                        /\ response'.alerts_generated = 0
                     \/ /\ Len(alerts') = Len(alerts) + n
                        /\ n > 0
                        /\ proc'[p].pc = "idle" =>
                               /\ response'.status = 201
                               /\ response'.alerts_generated = n
                        /\ proc'[p].pc # "idle" => Len(proc'[p].data) = n
              /\ (pr.pc \in AfterInsert /\ proc'[p].pc = "idle") =>
                     /\ response'.kind = "ingest"
                     /\ response'.status = 201
                     /\ response'.reading = pr.reading.id
                     /\ response'.alerts_generated = n
                     /\ Len(pr.data) = n]_vars

\* a breaching reading was stored, its alerts insert failed, and the request
\* answered 201 with alerts_generated = 0: the alerts table is empty
C10_Witness ==
    /\ response.kind = "ingest"
    /\ response.status = 201
    /\ response.alerts_generated = 0
    /\ response.reading = 1
    /\ Len(sensor_readings) = 1
    /\ Len(thresholdAlerts(sensor_readings[1])) > 0
    /\ alerts = << >>
    /\ notifications = << >>
    /\ \A p \in Procs : proc[p].pc = "idle"

\* the handler p is inside the sendNotification call that created row i
Dispatching(p, i) ==
    proc[p].pc \in {"notif_deliver", "notif_update"} /\ proc[p].notification = i

\* C11: a notification that was created is not left pending once the
\* sendNotification call that created it has returned: it is sent or failed,
\* whatever the transport or the store did during the call.
C11_NeverLeftPending ==
    \A i \in 1..Len(notifications) :
        notifications[i].status = "pending" => \E p \in Procs : Dispatching(p, i)

\* the sendNotification call that p is in, as notifyRelevantUsers made it
CallOf(pr) ==
    [user_id  |-> pr.usersL[pr.ui].id,
     alert_id |-> pr.data[pr.ai].id,
     channel  |-> pr.channel,
     message  |-> pr.data[pr.ai].message]

\* C12: the transport is invoked for a notification only after its pending
\* row has been inserted: a sendNotification call goes on to the delivery
\* exactly when its insert has added the pending row of that call, and when
\* the insert fails the call ends with no delivery and no row.
C12_DeliveryNeedsRow ==
    [][\A p \in Procs :
          (proc[p].pc = "notif_insert" /\ proc'[p] # proc[p]) =>
              LET c == CallOf(proc[p])
                  n == Len(notifications)
              IN  \/ /\ proc'[p].pc = "notif_deliver"
                     /\ Len(notifications') = n + 1
                     /\ proc'[p].notification = n + 1
                     /\ notifications'[n + 1].status = "pending"
                     /\ notifications'[n + 1].user_id = c.user_id
                     /\ notifications'[n + 1].alert_id = c.alert_id
                     /\ notifications'[n + 1].channel = c.channel
                     /\ CallOf(proc'[p]) = c
                  \/ /\ notifications' = notifications
                     /\ proc'[p].pc # "notif_deliver"
                     /\ proc'[p].pc = "notif_insert" => CallOf(proc'[p]) # c]_vars

\* the insert of the first notification failed: the handler is in its second
\* sendNotification call and neither a row nor a delivery exists
C12_Witness ==
    /\ proc[1].pc = "notif_insert"
    /\ Len(proc[1].calls) = 2
    /\ notifications = << >>

\* C13: a notification has sent_at set if and only if its status is sent, and
\* its status only moves from pending to sent or from pending to failed: a
\* row that is sent or failed never changes again.
C13_StatusLifecycle ==
    [][/\ Len(notifications') >= Len(notifications)
       /\ \A i \in 1..Len(notifications') :
              /\ notifications'[i].status \in {"pending", "sent", "failed"}
              /\ notifications'[i].sent_at # Null <=> notifications'[i].status = "sent"
       /\ \A i \in 1..Len(notifications) :
              notifications'[i] # notifications[i] =>
                  /\ notifications[i].status = "pending"
                  /\ notifications'[i].status \in {"sent", "failed"}
                  /\ notifications'[i] = [notifications[i] EXCEPT
                         !.status = notifications'[i].status,
                         !.sent_at = notifications'[i].sent_at]]_vars

\* one notification is sent, with its time, and another has failed, without
C13_Witness ==
    \E i, j \in 1..Len(notifications) :
        /\ notifications[i].status = "sent"
        /\ notifications[i].sent_at # Null
        /\ notifications[j].status = "failed"
        /\ notifications[j].sent_at = Null

\* the rows of the notifications table for one user, alert and channel
RowsFor(userId, alertId, channel) ==
    {i \in 1..Len(notifications) :
        /\ notifications[i].user_id = userId
        /\ notifications[i].alert_id = alertId
        /\ notifications[i].channel = channel}

\* an active admin or collector
Recipient(u) == u.is_active /\ u.role \in {"admin", "collector"}

\* the ingestion of the run has answered 201 and nothing is in flight
Ingested ==
    /\ response.kind = "ingest"
    /\ response.status = 201
    /\ \A p \in Procs : proc[p].pc = "idle"

\* C14: once the ingestion has answered, for each alert it created with
\* severity high or critical every active admin or collector has exactly one
\* email notification referencing that alert, and exactly one sms notification
\* if and only if the user has a phone and the alert is critical (none
\* otherwise). Stated for a store that accepts every call.
C14_FanOut ==
    Ingested =>
        \A a \in 1..Len(alerts), k \in 1..Len(users) :
            (alerts[a].severity \in {"high", "critical"} /\ Recipient(users[k])) =>
                /\ Cardinality(RowsFor(users[k].id, alerts[a].id, "email")) = 1
                /\ Cardinality(RowsFor(users[k].id, alerts[a].id, "sms")) =
                       IF Truthy(users[k].phone) /\ alerts[a].severity = "critical"
                       THEN 1 ELSE 0

\* the reading's high and critical alerts have been fanned out: five rows,
\* the only sms being the admin's for the critical alert
C14_Witness ==
    /\ Ingested
    /\ Len(alerts) = 3
    /\ alerts[2].severity = "high"
    /\ alerts[3].severity = "critical"
    /\ Len(notifications) = 5
    /\ RowsFor("u1", 3, "sms") # {}
    /\ RowsFor("u3", 3, "email") # {}
    /\ RowsFor("u1", 2, "sms") = {}

\* C15: every notification created by ingestion references an alert of
\* severity high or critical, is addressed to an active admin or collector
\* and uses the channel email or sms: medium and low alerts, operators,
\* inactive users and the push channel produce no notification.
C15_OnlyRelevant ==
    \A i \in 1..Len(notifications) :
        LET n == notifications[i]
        IN  /\ n.channel \in {"email", "sms"}
            /\ n.alert_id \in 1..Len(alerts)
            /\ alerts[n.alert_id].severity \in {"high", "critical"}
            /\ \E k \in 1..Len(users) : users[k].id = n.user_id /\ Recipient(users[k])
            /\ n.channel = "sms" =>
                   /\ alerts[n.alert_id].severity = "critical"
                   /\ \E k \in 1..Len(users) :
                          users[k].id = n.user_id /\ Truthy(users[k].phone)

\* the reading raised a medium alert next to the critical one, an operator
\* and a deactivated admin are registered, and the critical alert's rows are
\* there: an email for each recipient and the admin's sms
C15_Witness ==
    /\ alerts # << >>
    /\ alerts[1].severity = "medium"
    /\ \E k \in 1..Len(users) : users[k].role = "operator" /\ users[k].is_active
    /\ \E k \in 1..Len(users) : users[k].role = "admin" /\ ~users[k].is_active
    /\ \E i, j, l \in 1..Len(notifications) :
           /\ notifications[i].channel = "sms"
           /\ notifications[j].user_id = "u3"
           /\ notifications[l].alert_id = 2

\* the reading of the ingestion run by p is persisted and p has not answered
Persisted(p) ==
    proc[p].pc \in {"update_bin", "insert_alerts"} \cup AfterInsert

\* C16: a slow or hung transport does not stall ingestion: every ingestion
\* whose reading was persisted eventually answers, even if a delivery attempt
\* for one of its alerts never completes.
C16_IngestionAnswers ==
    Persisted(1) ~> (proc[1].pc = "idle" /\ response.kind = "ingest")

\* the sendNotification calls the policy asks for one alert: per recipient,
\* in the order of the users table, an email, and an sms when the recipient
\* has a phone and the alert is critical
ExpectedCalls(alert) ==
    LET rs == SelectSeq(users, Recipient)
        upTo[k \in 0..Len(rs)] ==
            IF k = 0 THEN << >>
            ELSE upTo[k - 1] \o << << rs[k].id, "email" >> >>
                   \o (IF Truthy(rs[k].phone) /\ alert.severity = "critical"
                       THEN << << rs[k].id, "sms" >> >> ELSE << >>)
    IN  upTo[Len(rs)]

\* the step on which p leaves the fan-out of the alert it was notifying
FanOutEnds(p) ==
    /\ proc[p].pc \in {"notif_insert", "notif_update"}
    /\ proc'[p].pc \in {"idle", "fetch_users"}

\* C17: the fan-out is independent per user: whatever inserts or deliveries
\* failed for some users, when the fan-out of an alert ends sendNotification
\* has been called once for every channel of every recipient, and no call has
\* left more than one row.
C17_FanOutIndependent ==
    [][\A p \in Procs :
          FanOutEnds(p) =>
              LET a == proc[p].data[proc[p].ai]
              IN  /\ proc[p].calls = ExpectedCalls(a)
                  /\ \A c \in 1..Len(proc[p].calls) :
                         Cardinality({i \in 1..Len(notifications') :
                             /\ notifications'[i].alert_id = a.id
                             /\ notifications'[i].user_id = proc[p].calls[c][1]
                             /\ notifications'[i].channel = proc[p].calls[c][2]}) <= 1]_vars

\* the admin's email for the high alert was never inserted and the admin's
\* email for the critical alert failed in delivery, yet the collector's emails
\* for both alerts are sent
C17_Witness ==
    /\ RowsFor("u1", 2, "email") = {}
    /\ \E i \in RowsFor("u3", 2, "email") : notifications[i].status = "sent"
    /\ \E i \in RowsFor("u1", 3, "email") : notifications[i].status = "failed"
    /\ \E i \in RowsFor("u3", 3, "email") : notifications[i].status = "sent"

\* C18: a delivery failure is never surfaced as a request error: the step on
\* which the transport answers changes no table and writes no response
\* whatever the answer, the ingestion's response (201, the reading, the number
\* of alerts) is the same whether its deliveries succeeded or failed, and the
\* answer shows only in the stored status of the notification.
C18_DeliveryFailureContained ==
    [][\A p \in Procs :
          LET pr == proc[p]
          IN  /\ (pr.pc = "notif_deliver" /\ proc'[p] # pr) =>
                     /\ proc'[p].pc = "notif_update"
                     /\ response' = response
                     /\ notifications' = notifications
                     /\ alerts' = alerts
                     /\ sensor_readings' = sensor_readings
                     /\ events' = events
              /\ (pr.pc = "notif_update" /\ notifications' # notifications) =>
                     notifications'[pr.notification].status =
                         IF pr.delivered THEN "sent" ELSE "failed"
              /\ (pr.pc \in AfterInsert /\ proc'[p].pc = "idle") =>
                     response' = [NoRes EXCEPT !.kind = "ingest", !.status = 201,
                                               !.reading = pr.reading.id,
                                               !.alerts_generated = Len(pr.data)]]_vars

\* the request has answered 201 with its three alerts although a delivery
\* was refused, which shows in that notification's status
C18_Witness ==
    /\ Ingested
    /\ response.alerts_generated = 3
    /\ response.reading = 1
    /\ \E i \in 1..Len(notifications) : notifications[i].status = "failed"

\* a submit-reading body with a bin code and a fill value within 0..100
ValidReading(body) ==
    /\ Truthy(body.bin_code)
    /\ body.fill_level.k = "num"
    /\ body.fill_level.v >= 0
    /\ body.fill_level.v <= 100

\* the store and the published events are as they were
StoreUntouched ==
    UNCHANGED << bins, sensor_readings, alerts, notifications,
                 collection_logs, users, events >>

\* C19: a submit-reading request whose bin code is missing, or whose fill
\* value is missing (absent or null) or outside 0..100, is rejected with 400
\* on arrival, before any store read or write: the handler is over, and no
\* reading, bin update, alert, notification or event results.
C19_InvalidRejected ==
    [][\A p \in Procs, body \in IngestBodies :
          (~ValidReading(body) /\ receiveSensorData(p, body)) =>
              /\ proc'[p].pc = "idle"
              /\ response'.kind = "ingest"
              /\ response'.status = 400
              /\ StoreUntouched]_vars

\* C20: a submit-reading request for an unknown bin code and a log-collection
\* request for an unknown bin id are answered 404, leave the store as it was
\* from their arrival to their answer and publish no event.
C20_UnknownBinNotFound ==
    [][\A p \in Procs :
          LET pr == proc[p]
          IN  /\ (pr.pc = "idle" /\ proc'[p].pc \in {"lookup_bin", "c_fetch_bin"})
                     => StoreUntouched
              /\ (pr.pc = "lookup_bin" /\ proc'[p] # pr
                    /\ \A b \in DOMAIN bins : bins[b].bin_code # pr.body.bin_code) =>
                     /\ proc'[p].pc = "idle"
                     /\ response'.kind = "ingest"
                     /\ response'.status = 404
                     /\ StoreUntouched
              /\ (pr.pc = "c_fetch_bin" /\ proc'[p] # pr
                    /\ pr.body.bin_id \notin DOMAIN bins) =>
                     /\ proc'[p].pc = "idle"
                     /\ response'.kind = "collection"
                     /\ response'.status = 404
                     /\ StoreUntouched]_vars

\* a reading for the unregistered code BIN-404 was answered 404 and a
\* collection was then requested for the unregistered bin b404: the store is
\* still the fresh one
C20_Witness ==
    /\ response.status = 404
    /\ response.error = "BIN-404"
    /\ \E p \in Procs : proc[p].pc = "c_fetch_bin" /\ proc[p].body.bin_id = "b404"
    /\ sensor_readings = << >>
    /\ collection_logs = << >>
    /\ events = EmptyBag

\* C21: a failed primary write ends the request with a 500 and nothing else
\* happens: when the reading insert fails the bin's fill is not updated,
\* nothing is published and no alert is created; when the collection-log
\* insert fails the bin is not reset, no alert is resolved and nothing is
\* published.
C21_FailedWriteAborts ==
    [][\A p \in Procs :
          LET pr == proc[p]
          IN  /\ (pr.pc = "insert_reading" /\ proc'[p] # pr
                    /\ sensor_readings' = sensor_readings) =>
                     /\ proc'[p].pc = "idle"
                     /\ response'.kind = "ingest"
                     /\ response'.status = 500
                     /\ StoreUntouched
              /\ (pr.pc = "c_insert_log" /\ proc'[p] # pr
                    /\ collection_logs' = collection_logs) =>
                     /\ proc'[p].pc = "idle"
                     /\ response'.kind = "collection"
                     /\ response'.status = 500
                     /\ StoreUntouched]_vars

\* bin b2 reported 85 % on a low battery, which raised two alerts; the
\* collection requested next was refused its log: b2 is still at 85 %, its
\* alerts are open and no bin status was published
C21_Witness ==
    /\ response.kind = "collection"
    /\ response.status = 500
    /\ \A p \in Procs : proc[p].pc = "idle"
    /\ bins["b2"].fill_level = 85
    /\ Cardinality(openAlertsOf("b2")) = 2
    /\ \A m \in BagToSet(events) : m.event # "bin_status_update"

\* C22: every collection request that returns its collection log has set the
\* bin's fill to exactly 0 and updated last_emptied, whatever the fill was
\* before: the bins update of the request has returned the bin's row, with
\* fill 0 and a last_emptied timestamp.
C22_CollectionResets ==
    [][\A p \in Procs :
          (Collected(p) /\ response'.status = 201) =>
              /\ proc[p].updatedBin # << >>
              /\ proc[p].updatedBin[1].id = proc[p].body.bin_id
              /\ proc[p].updatedBin[1].fill_level = 0
              /\ proc[p].updatedBin[1].last_emptied # Null]_vars

\* the collection run by p inserts its log on this step
LogsCollection(p) ==
    proc[p].pc = "c_insert_log" /\ proc'[p].pc = "c_update_bin"

Resets(p) ==
    /\ proc[p].pc = "c_update_bin"
    /\ proc'[p].pc = "c_resolve"
    /\ proc'[p].updatedBin # << >>

\* C24: each bin's fill is within 0..100 in every reachable state, and a
\* bin's fill goes from a positive value to 0 only on the reset of a
\* collection of that bin: no reading ingestion empties a bin.
C24_FillEmptiedByCollection ==
    /\ \A b \in BinIds : bins[b].fill_level \in 0..100
    /\ [][\A b \in BinIds :
             /\ bins'[b].fill_level \in 0..100
             /\ (bins[b].fill_level > 0 /\ bins'[b].fill_level = 0) =>
                    \E p \in Procs : Resets(p) /\ proc[p].bin = b]_vars

\* the positions of the readings of bin b in sensor_readings, which is kept
\* in the order of the inserts
ReadingsOf(b) == {i \in 1..Len(sensor_readings) : sensor_readings[i].bin_id = b}

\* the greatest element of a non-empty set of numbers
Last(S) == CHOOSE i \in S : \A j \in S : j <= i

\* no request is in flight
Quiet == \A p \in Procs : proc[p].pc = "idle"

\* C25: when several readings of the same bin are ingested side by side and
\* all those requests have completed, the bin's fill is the fill_level of the
\* reading that was persisted last (no collection having taken place).
C25_LatestReadingWins ==
    (Quiet /\ collection_logs = << >>) =>
        \A b \in BinIds :
            ReadingsOf(b) # {} =>
                bins[b].fill_level = sensor_readings[Last(ReadingsOf(b))].fill_level.v

\* the bin that owns the entity a message carries
Owner(m) ==
    IF "reading" \in DOMAIN m THEN m.reading.bin_id
    ELSE IF "alert" \in DOMAIN m THEN m.alert.bin_id
    ELSE m.bin.id

\* the name of the message to everyone and of the message to the bin's room
\* in the publish operation m belongs to
GlobalName(m) ==
    IF "reading" \in DOMAIN m THEN "sensor_reading"
    ELSE IF "alert" \in DOMAIN m THEN "new_alert"
    ELSE "bin_status_update"

ScopedName(m) == IF "alert" \in DOMAIN m THEN "bin_alert" ELSE "bin_update"

\* the other message of the publish operation m belongs to
Twin(m) ==
    IF m.room = Everyone
    THEN [m EXCEPT !.event = ScopedName(m), !.room = Room(Owner(m))]
    ELSE [m EXCEPT !.event = GlobalName(m), !.room = Everyone]

\* socket s is connected and subscribed to bin b
Subscribed(s, b) == sockets[s].connected /\ Room(b) \in sockets[s].rooms

\* C26: each publish operation (reading, alert, bin update) sends one message
\* to all connected observers and one to the group of the owning bin: the
\* messages of a step come in pairs, one to everyone and one to the room of
\* the entity's bin; an observer subscribed to that bin is sent both, a
\* connected observer that never subscribed to it or has unsubscribed is sent
\* only the one to everyone, and nobody is sent anything else.
C26_PublishScopes ==
    [][LET pub == events' (-) events
       IN  /\ \A m \in BagToSet(pub) :
                 /\ m.room \in {Everyone, Room(Owner(m))}
                 /\ m.event = (IF m.room = Everyone THEN GlobalName(m)
                               ELSE ScopedName(m))
                 /\ CopiesIn(Twin(m), pub) = CopiesIn(m, pub)
           /\ \A s \in Sockets :
                 LET got == received'[s] (-) received[s]
                 IN  /\ received'[s] = received[s] (+) got
                     /\ BagToSet(got) \subseteq BagToSet(pub)
                     /\ \A m \in BagToSet(pub) :
                            CopiesIn(m, got) =
                               IF m.room = Everyone
                               THEN (IF sockets[s].connected
                                     THEN CopiesIn(m, pub) ELSE 0)
                               ELSE (IF Subscribed(s, Owner(m))
                                     THEN CopiesIn(m, pub) ELSE 0)]_vars

\* dashboard s1 subscribed to bin b1 and then unsubscribed, dashboard s2 is
\* subscribed to b1: of the reading published since, s1 was sent the message
\* to everyone, s2 that one and the one to b1's room; both are subscribed to
\* b2, of which nothing was published
C26_Witness ==
    /\ Subscribed("s1", "b2") /\ ~Subscribed("s1", "b1")
    /\ Subscribed("s2", "b2") /\ Subscribed("s2", "b1")
    /\ \E m \in BagToSet(events) :
          /\ m.event = "sensor_reading"
          /\ CopiesIn(m, received["s1"]) = 1
          /\ CopiesIn(Twin(m), received["s1"]) = 0
          /\ CopiesIn(m, received["s2"]) = 1
          /\ CopiesIn(Twin(m), received["s2"]) = 1
    /\ \E m \in BagToSet(events) :
          /\ m.event = "new_alert"
          /\ CopiesIn(Twin(m), received["s1"]) = 0
          /\ CopiesIn(Twin(m), received["s2"]) = 1

\* the bin-status messages to everyone among the messages of bag B
BinStatusEvents(B) == {m \in BagToSet(B) : m.event = "bin_status_update"}

\* C27: a successful collection publishes exactly one bin-status event, only
\* after the collection log was inserted, the bin was reset to 0 and the
\* bin's open alerts were resolved, and the published bin carries fill 0: a
\* bin-status event is published only on the last step of a collection, and
\* on the step on which a collection answers 201 exactly one is published,
\* for the request's bin with fill 0, the log is in the table, the bins
\* update has returned the reset row and the bin has no open alert.
C27_OneBinStatusEvent ==
    [][LET pub == events' (-) events
       IN  /\ BinStatusEvents(pub) # {} => \E p \in Procs : Collected(p)
           /\ \A p \in Procs :
                 (Collected(p) /\ response'.status = 201) =>
                     /\ Cardinality(BinStatusEvents(pub)) = 1
                     /\ \A m \in BinStatusEvents(pub) :
                            /\ CopiesIn(m, pub) = 1
                            /\ m.bin.id = proc[p].body.bin_id
                            /\ m.bin.fill_level = 0
                     /\ proc[p].log \in 1..Len(collection_logs)
                     /\ collection_logs[proc[p].log].bin_id = proc[p].body.bin_id
                     /\ proc[p].updatedBin # << >>
                     /\ \A i \in 1..Len(alerts') :
                            alerts'[i].bin_id = proc[p].body.bin_id =>
                                alerts'[i].resolved]_vars

\* message m publishes alert row a
Publishes(m, a) ==
    /\ m.event = "new_alert"
    /\ m.alert.id = a.id
    /\ m.alert.bin_id = a.bin_id
    /\ m.alert.alert_type = a.alert_type
    /\ m.alert.severity = a.severity

\* the alert rows the ingestion run by p has got back from its insert, on a
\* step that starts in proc and the table alerts
InsertedBy(p) ==
    IF proc[p].pc = "insert_alerts"
    THEN SubSeq(alerts', Len(alerts) + 1, Len(alerts'))
    ELSE proc[p].data

\* the ingestion run by p answers 201 on this step
Answers(p) ==
    /\ proc[p].kind = "ingest"
    /\ proc'[p].pc = "idle"
    /\ proc[p].pc # "idle"
    /\ response'.status = 201

\* C28: within one ingestion the steps are ordered. The reading event is
\* published only once the reading is in the table and the bins update has
\* been awaited; an alert event is published only for a row that is in the
\* alerts table; a notification of an alert is inserted only by a request
\* still in flight and after that alert's event was published; and when the
\* request answers, the reading and every alert it got back from the insert
\* have been published.
C28_StepsInOrder ==
    [][LET pub == events' (-) events
       IN  /\ \A m \in BagToSet(pub) :
                 /\ m.event = "sensor_reading" =>
                        /\ m.reading.id \in 1..Len(sensor_readings)
                        /\ sensor_readings[m.reading.id] = m.reading
                        /\ \E p \in Procs : /\ proc[p].pc = "update_bin"
                                            /\ proc'[p] # proc[p]
                                            /\ proc[p].reading = m.reading
                 /\ m.event = "new_alert" =>
                        /\ m.alert.id \in 1..Len(alerts')
                        /\ Publishes(m, alerts'[m.alert.id])
           /\ Len(notifications') > Len(notifications) =>
                 /\ Len(notifications') = Len(notifications) + 1
                 /\ \E p \in Procs :
                       /\ proc[p].pc = "notif_insert"
                       /\ proc'[p] # proc[p]
                       /\ notifications'[Len(notifications')].alert_id =
                              proc[p].data[proc[p].ai].id
                 /\ \E m \in BagToSet(events) :
                       Publishes(m, alerts[notifications'[Len(notifications')].alert_id])
           /\ \A p \in Procs :
                 Answers(p) =>
                     /\ \E m \in BagToSet(events') :
                           /\ m.event = "sensor_reading"
                           /\ m.reading.id = response'.reading
                     /\ response'.alerts_generated = Len(InsertedBy(p))
                     /\ \A i \in 1..Len(InsertedBy(p)) :
                           \E m \in BagToSet(events') :
                               Publishes(m, InsertedBy(p)[i])]_vars

\* bin b2 reported 85 % on a low battery and the request has answered: two
\* alerts, both published, and the admin's notification of the high one
C28_Witness ==
    /\ Quiet
    /\ response.kind = "ingest"
    /\ response.status = 201
    /\ response.alerts_generated = 2
    /\ Len(notifications) = 1
    /\ Cardinality({m \in BagToSet(events) : m.event = "new_alert"}) = 2
    /\ \E m \in BagToSet(events) : m.event = "sensor_reading"

\* the bin of the ingestion run by p was reset after p's reading was
\* persisted: its last_emptied is no longer the one p's insert saw
ResetSincePersisted(p) ==
    /\ proc[p].pc \in {"update_bin", "insert_alerts"}
    /\ bins[proc[p].bin].last_emptied # proc[p].emptied_seen

\* a collection of bin b is in flight and has not run its alerts update yet
CollectionPending(b) ==
    \E q \in Procs :
        /\ proc[q].kind = "collection"
        /\ proc[q].pc # "idle"
        /\ proc[q].body.bin_id = b

\* C29: when an ingestion and a collection of the same bin interleave, every
\* alert created from a reading that was persisted before the collection
\* reset the bin is resolved once both have completed: alerts are created
\* from such a reading only while a collection of the bin still has its
\* alerts update to run.
C29_NoStaleOpenAlert ==
    [][\A p \in Procs :
          (/\ proc[p].pc = "insert_alerts"
           /\ Len(alerts') > Len(alerts)
           /\ ResetSincePersisted(p)) =>
              CollectionPending(proc[p].bin)]_vars

\* C30: when a reading of bin B is ingested side by side with a collection
\* of B, the collection log's fill_level_before is the fill that the
\* collection's reset overwrote, and once both have completed the bin's fill
\* is 0 or the fill of a reading persisted after the reset: on the reset
\* step the log of the request says the fill the bin has just before, and
\* no ingestion writes a positive fill over a reset that came after its
\* reading was persisted.
C30_ResetMatchesLog ==
    [][\A p \in Procs :
          /\ Resets(p) =>
                collection_logs[proc[p].log].fill_level_before =
                    bins[proc[p].bin].fill_level
          /\ (/\ proc[p].pc = "update_bin"
              /\ bins'[proc[p].bin].fill_level # bins[proc[p].bin].fill_level
              /\ bins'[proc[p].bin].fill_level > 0) =>
                ~ResetSincePersisted(p)]_vars

=============================================================================
